---- MODULE Spec2Model ----
(***************************************************************************)
(* A model of asim/remindme (remindme.go): the location manager            *)
(* (addContacts, nearContacts, updateLocation), its lock, and the four     *)
(* HTTP handlers.  The spatial index (github.com/asim/quadtree) is not     *)
(* part of remindme.go; Point, AABB, Insert, Update and KNearest are       *)
(* modelled from section 4.2 of the specification, as a flat point set.    *)
(* Coordinates are integers standing for float64 values.                   *)
(***************************************************************************)
EXTENDS Integers, Sequences, FiniteSets, TLC

VARIABLES
    users,      \* manager.users: id -> user record (the registry)
    points,     \* the heap of *quadtree.Point objects that are still referenced
    world,      \* manager.world: the set of point references held by the index
    lock,       \* manager.RWMutex: Free or the process holding it exclusively
    pc,         \* per process: position inside the request it is serving
    call,       \* per process: the manager call in flight (operation and arguments)
    last,       \* the response to the most recently completed request
    added,      \* history: per user, every id ever passed to addContacts for it
    streak,     \* history: the run of identical updateLocation calls just made
    strayed     \* history: the users that ever reported a position outside the world

vars == <<users, points, world, lock, pc, call, last, added, streak, strayed>>

(***************************************************************************)
(* Bounds                                                                  *)
(***************************************************************************)
NumUsers == 7
NumProcs == 2
MaxK == 7

Ids == 1..NumUsers
Procs == 1..NumProcs

(***************************************************************************)
(* Program constants                                                       *)
(***************************************************************************)
nearestContacts == 5
nearestDistance == 10

(***************************************************************************)
(* Go and JSON values                                                      *)
(***************************************************************************)
\* an interface{} holding a string, and the nil interface
GoString(s) == [t |-> "string", v |-> s]
GoNil == [t |-> "nil"]
\* a nil *quadtree.Point; point references are <<owner id, serial>>
NilPtr == <<>>

JString(s) == [t |-> "string", v |-> s]
JNumber(n) == [t |-> "number", v |-> n]
JArray(a) == [t |-> "array", v |-> a]
JObject(o) == [t |-> "object", v |-> o]
JNull == [t |-> "null"]
JMalformed == [t |-> "malformed"]

Min(a, b) == IF a < b THEN a ELSE b
Abs(a) == IF a < 0 THEN 0 - a ELSE a
Range(s) == {s[i] : i \in 1..Len(s)}

(***************************************************************************)
(* The spatial index, from section 4.1 and 4.2 of the specification        *)
(***************************************************************************)
NewPoint(x, y, data) == [x |-> x, y |-> y, data |-> data]

\* NewAABB(center, half), as the call sites in remindme.go use it
NewAABB(center, half) == [center |-> center, half |-> half]

\* half-extent of m coordinate units in both directions
HalfPoint(p, m) == NewPoint(m, m, GoNil)

ContainsPoint(a, p) ==
    /\ Abs(p.x - a.center.x) <= a.half.x
    /\ Abs(p.y - a.center.y) <= a.half.y

SquaredDistance(p, q) == (p.x - q.x) * (p.x - q.x) + (p.y - q.y) * (p.y - q.y)

\* the deterministic tie-break of KNearest: by point reference
RefBefore(r, q) == r[1] < q[1] \/ (r[1] = q[1] /\ r[2] <= q[2])

Nearer(pts, c, r, q) ==
    \/ SquaredDistance(pts[r], c) < SquaredDistance(pts[q], c)
    \/ /\ SquaredDistance(pts[r], c) = SquaredDistance(pts[q], c)
       /\ RefBefore(r, q)

RECURSIVE SortByDistance(_, _, _)
SortByDistance(S, pts, c) ==
    IF S = {} THEN <<>>
    ELSE LET r == CHOOSE r \in S : \A q \in S : Nearer(pts, c, r, q)
         IN  <<r>> \o SortByDistance(S \ {r}, pts, c)

\* Insert(point): fails (ok = FALSE) outside the root region, and then inserts nothing
Insert(w, pts, bounds, r) ==
    IF ContainsPoint(bounds, pts[r])
    THEN [world |-> w \cup {r}, ok |-> TRUE]
    ELSE [world |-> w, ok |-> FALSE]

\* Update(oldPoint, newPoint): removal of oldPoint by reference identity,
\* followed by a fresh Insert(newPoint); a newPoint outside the root region is
\* therefore refused after oldPoint has left the index
Update(w, pts, bounds, old, new) ==
    IF old \notin w THEN [world |-> w, err |-> "NotFoundError"]
    ELSE LET ins == Insert(w \ {old}, pts, bounds, new)
         IN  [world |-> ins.world,
              err |-> IF ins.ok THEN "" ELSE "OutOfBoundsError"]

\* the points a filter predicate is asked about: those of the index
Stored(w, pts) == {pts[r] : r \in w}

\* KNearest(window, k, filter): the points inside the window that satisfy the
\* filter, ascending by squared distance from the window's center, cut to k
KNearest(w, pts, a, k, fn) ==
    LET cand == {r \in w : ContainsPoint(a, pts[r]) /\ fn[pts[r]]}
        sorted == SortByDistance(cand, pts, a.center)
    IN  SubSeq(sorted, 1, Min(k, Len(sorted)))

(***************************************************************************)
(* The manager                                                             *)
(***************************************************************************)
newUser(id) == [id |-> id, contacts |-> {}, location |-> NilPtr]

newWorld == NewAABB(NewPoint(0, 0, GoNil), NewPoint(85, 185, GoNil))

\* the manager's data as one value: registry, heap and index
Manager(us, pts, w) == [users |-> us, points |-> pts, world |-> w]

newManager == Manager(<<>>, <<>>, {})

\* the address of a freshly allocated Point: any reference not in use
NewRef(m, id) ==
    <<id, CHOOSE n \in 1..(Cardinality(DOMAIN m.points) + 1) :
            /\ <<id, n>> \notin DOMAIN m.points
            /\ \A k \in 1..(n - 1) : <<id, k>> \in DOMAIN m.points>>

\* Go's garbage collector: a Point nobody references is gone
Collect(m) ==
    LET live == m.world \cup {m.users[i].location : i \in DOMAIN m.users}
    IN  [m EXCEPT !.points = [r \in (DOMAIN m.points) \cap live |-> m.points[r]]]

\* addEach with break in place of continue: the loop ends at the first id
\* that is already a contact
RECURSIVE addEachStopping(_, _)
addEachStopping(c, contacts) ==
    IF contacts = <<>> THEN c
    ELSE IF Head(contacts) \in c
         THEN c
         ELSE addEachStopping(c \cup {Head(contacts)}, Tail(contacts))

\* the loop of addContacts over the contacts slice
RECURSIVE addEach(_, _)
addEach(c, contacts) ==
    IF contacts = <<>> THEN c
    ELSE IF Head(contacts) \in c
         THEN addEach(c, Tail(contacts))
         ELSE addEach(c \cup {Head(contacts)}, Tail(contacts))

lookupOrCreate(m, id) ==
    IF id \in DOMAIN m.users THEN m
    ELSE [m EXCEPT !.users = (id :> newUser(id)) @@ m.users]

\* addContacts that also records id as a contact of each id it adds
addContactsMutual(m, id, contacts) ==
    LET m1 == lookupOrCreate(m, id)
        m2 == [m1 EXCEPT !.users[id].contacts = addEach(@, contacts)]
        others == Range(contacts) \ {id}
    IN  [m2 EXCEPT !.users =
           [i \in DOMAIN m2.users \cup others |->
              IF i \notin others THEN m2.users[i]
              ELSE IF i \in DOMAIN m2.users
                   THEN [m2.users[i] EXCEPT !.contacts = @ \cup {id}]
                   ELSE [newUser(i) EXCEPT !.contacts = {id}]]]

addContacts(m, id, contacts) ==
    LET m1 == lookupOrCreate(m, id)
    IN  [m1 EXCEPT !.users[id].contacts = addEach(@, contacts)]

\* the filter closure of nearContacts, over the contact set c
filter(c, p) ==
    IF p.data.t # "string" THEN FALSE
    ELSE IF p.data.v \notin c THEN FALSE
    ELSE TRUE

\* nearWindow with nearestDistance taken as the half-extent of each half
nearWindowDoubled(lat, lon) ==
    LET ax == NewPoint(lat, lon, GoNil)
        bx == HalfPoint(ax, 2 * nearestDistance)
    IN  NewAABB(ax, bx)

\* the query window of nearContacts
nearWindow(lat, lon) ==
    LET ax == NewPoint(lat, lon, GoNil)
        bx == HalfPoint(ax, nearestDistance)
    IN  NewAABB(ax, bx)

\* collectIds without the comparison with the user's own id
RECURSIVE collectIdsKeepingSelf(_, _, _)
collectIdsKeepingSelf(u, pts, found) ==
    IF found = <<>> THEN <<>>
    ELSE LET point == pts[Head(found)]
             rest == collectIdsKeepingSelf(u, pts, Tail(found))
         IN  IF point.data.t # "string" THEN rest
             ELSE <<point.data.v>> \o rest

\* collectIds appending each id in front of the ids collected before it
RECURSIVE collectIdsBackwards(_, _, _)
collectIdsBackwards(u, pts, found) ==
    IF found = <<>> THEN <<>>
    ELSE LET point == pts[Head(found)]
             rest == collectIdsBackwards(u, pts, Tail(found))
         IN  IF point.data.t # "string" THEN rest
             ELSE IF point.data.v = u.id THEN rest
             ELSE rest \o <<point.data.v>>

\* the result loop of nearContacts over the points KNearest returned
RECURSIVE collectIds(_, _, _)
collectIds(u, pts, found) ==
    IF found = <<>> THEN <<>>
    ELSE LET point == pts[Head(found)]
             rest == collectIds(u, pts, Tail(found))
         IN  IF point.data.t # "string" THEN rest
             ELSE IF point.data.v = u.id THEN rest
             ELSE <<point.data.v>> \o rest

\* nearContacts registering an unknown user, as updateLocation does
nearContactsCreating(m, id, lat, lon) ==
    LET m1 == lookupOrCreate(m, id)
        u == m1.users[id]
        found == KNearest(m1.world, m1.points, nearWindow(lat, lon),
                          nearestContacts,
                          [p \in Stored(m1.world, m1.points) |->
                              filter(u.contacts, p)])
    IN  IF u.contacts = {} THEN [m |-> m1, ret |-> <<>>]
        ELSE [m |-> m1, ret |-> collectIds(u, m1.points, found)]

nearContacts(m, id, lat, lon) ==
    IF id \notin DOMAIN m.users \/ m.users[id].contacts = {}
    THEN [m |-> m, ret |-> <<>>]
    ELSE LET u == m.users[id]
             c == u.contacts
             bb == nearWindow(lat, lon)
             found == KNearest(m.world, m.points, bb, nearestContacts,
                               [p \in Stored(m.world, m.points) |-> filter(c, p)])
         IN  [m |-> m, ret |-> collectIds(u, m.points, found)]

\* updateLocation without the comparison of the old and new coordinates
updateLocationAlways(m, id, lat, lon) ==
    LET m1 == lookupOrCreate(m, id)
        u == m1.users[id]
        r == NewRef(m1, id)
    IN  IF u.location = NilPtr
        THEN LET m2 == [m1 EXCEPT
                          !.points = (r :> NewPoint(lat, lon, GoString(id))) @@ @,
                          !.users[id].location = r]
             IN  Collect([m2 EXCEPT
                            !.world = Insert(@, m2.points, newWorld, r).world])
        ELSE LET m2 == [m1 EXCEPT
                          !.points = (r :> NewPoint(lat, lon, GoNil)) @@ @]
             IN  Collect([m2 EXCEPT
                            !.world = Update(@, m2.points, newWorld,
                                             u.location, r).world])

updateLocation(m, id, lat, lon) ==
    LET m1 == lookupOrCreate(m, id)
        u == m1.users[id]
        r == NewRef(m1, id)
    IN  IF u.location = NilPtr
        THEN LET m2 == [m1 EXCEPT
                          !.points = (r :> NewPoint(lat, lon, GoString(id))) @@ @,
                          !.users[id].location = r]
             IN  Collect([m2 EXCEPT
                            !.world = Insert(@, m2.points, newWorld, r).world])
        ELSE IF /\ m1.points[u.location].x = lat
                /\ m1.points[u.location].y = lon
             THEN m1
             ELSE LET m2 == [m1 EXCEPT
                               !.points = (r :> NewPoint(lat, lon, GoNil)) @@ @]
                  IN  Collect([m2 EXCEPT
                                 !.world = Update(@, m2.points, newWorld,
                                                  u.location, r).world])

(***************************************************************************)
(* The HTTP handlers: request decoding                                     *)
(***************************************************************************)
Error(msg) == [ok |-> FALSE, status |-> 400, msg |-> msg]
Ok(args) == [ok |-> TRUE, status |-> 200, msg |-> "", args |-> args]

\* data[k] on a map[string]interface{}: the nil interface when k is absent
Get(data, k) == IF k \in DOMAIN data THEN data[k] ELSE JNull

\* the common head of the four handlers: method, body, json.Unmarshal into a map
readRequest(req) ==
    IF req.method # "POST" THEN Error("Bad Request. Non POST")
    ELSE IF ~req.readable THEN Error("Bad Request. Could not read body.")
    ELSE IF req.json.t = "null" THEN Ok(<<>>)
    ELSE IF req.json.t # "object"
         THEN Error("Bad Request. Failed to unmarshal request.")
    ELSE Ok(req.json.v)

\* parseContacts skipping an element that is not a string
RECURSIVE parseContactsSkipping(_, _)
parseContactsSkipping(icontacts, contacts) ==
    IF icontacts = <<>> THEN Ok(contacts)
    ELSE IF Head(icontacts).t # "string"
         THEN parseContactsSkipping(Tail(icontacts), contacts)
         ELSE parseContactsSkipping(Tail(icontacts),
                                    Append(contacts, Head(icontacts).v))

\* the loop of contactHandler over the contacts array
RECURSIVE parseContacts(_, _)
parseContacts(icontacts, contacts) ==
    IF icontacts = <<>> THEN Ok(contacts)
    ELSE IF Head(icontacts).t # "string"
         THEN Error("Bad Request. Failed to parse contacts.")
         ELSE parseContacts(Tail(icontacts), Append(contacts, Head(icontacts).v))

contactArgs(req) ==
    LET d == readRequest(req)
    IN  IF ~d.ok THEN d
        ELSE LET id == Get(d.args, "id")
                 icontacts == Get(d.args, "contacts")
             IN  IF id.t # "string" THEN Error("Bad Request. Could not find id.")
                 ELSE IF icontacts.t # "array"
                      THEN Error("Bad Request. Could not find contacts.")
                 ELSE LET c == parseContacts(icontacts.v, <<>>)
                      IN  IF ~c.ok THEN c
                          ELSE Ok([id |-> id.v, contacts |-> c.args])

\* the location object of /ping, /near and /_all
locationArgs(data) ==
    LET location == Get(data, "location")
    IN  IF location.t # "object"
        THEN Error("Bad Request. Could not find location.")
        ELSE LET lat == Get(location.v, "lat")
                 lon == Get(location.v, "lon")
             IN  IF lat.t # "number"
                 THEN Error("Bad Request. Could not parse latitude.")
                 ELSE IF lon.t # "number"
                      THEN Error("Bad Request. Could not parse longitude.")
                 ELSE Ok([lat |-> lat.v, lon |-> lon.v])

\* the decoding that pingHandler and nearHandler share
idLocationArgs(req) ==
    LET d == readRequest(req)
    IN  IF ~d.ok THEN d
        ELSE LET id == Get(d.args, "id")
             IN  IF id.t # "string" THEN Error("Bad Request. Could not find id.")
                 ELSE LET l == locationArgs(d.args)
                      IN  IF ~l.ok THEN l
                          ELSE Ok([id |-> id.v, lat |-> l.args.lat,
                                   lon |-> l.args.lon])

pingArgs(req) == idLocationArgs(req)

nearArgs(req) == idLocationArgs(req)

allArgs(req) ==
    LET d == readRequest(req)
    IN  IF ~d.ok THEN d
        ELSE LET id == Get(d.args, "id")
                 distance == Get(d.args, "distance")
                 numPoints == Get(d.args, "num_points")
             IN  IF id.t # "string" THEN Error("Bad Request. Could not find id.")
                 ELSE IF distance.t # "number"
                      THEN Error("Bad Request. Could not find distance.")
                 ELSE IF numPoints.t # "number"
                      THEN Error("Bad Request. Could not find num_points.")
                 ELSE LET l == locationArgs(d.args)
                      IN  IF ~l.ok THEN l
                          ELSE Ok([id |-> id.v, distance |-> distance.v,
                                   numPoints |-> numPoints.v,
                                   lat |-> l.args.lat, lon |-> l.args.lon])

\* the query of allHandler: no filter, the caller's distance and count
allQuery(m, a) ==
    LET ax == NewPoint(a.lat, a.lon, GoNil)
        bx == HalfPoint(ax, a.distance)
        bb == NewAABB(ax, bx)
    IN  KNearest(m.world, m.points, bb, a.numPoints,
                 [p \in Stored(m.world, m.points) |-> TRUE])

\* the users map allHandler builds from the points found
allUsers(pts, found) ==
    LET named == {i \in 1..Len(found) : pts[found[i]].data.t = "string"}
        ids == {pts[found[i]].data.v : i \in named}
    IN  [id \in ids |->
            LET i == CHOOSE i \in named :
                        /\ pts[found[i]].data.v = id
                        /\ \A j \in named : pts[found[j]].data.v = id => j <= i
            IN  [lat |-> pts[found[i]].x, lon |-> pts[found[i]].y]]

(***************************************************************************)
(* The state machine: one request served from start to finish              *)
(***************************************************************************)
\* the zero value of the RWMutex: unlocked
Free == 0

defaultManager == Manager(users, points, world)

Response(endpoint, r, body) ==
    [endpoint |-> endpoint, ok |-> r.ok, status |-> r.status, msg |-> r.msg,
     args |-> IF r.ok THEN r.args ELSE <<>>, body |-> body]

NoResponse ==
    [endpoint |-> "", ok |-> FALSE, status |-> 0, msg |-> "", args |-> <<>>,
     body |-> <<>>]

\* no updateLocation call was the most recent manager call
NoStreak == [args |-> <<>>, n |-> 0, first |-> FALSE]

\* the run after updateLocation(a.id, a.lat, a.lon): its length (2 stands for
\* two or more) and whether its first call found the user without a location
Streak(a) ==
    IF streak.args = a
    THEN [streak EXCEPT !.n = Min(@ + 1, 2)]
    ELSE [args |-> a, n |-> 1,
          first |-> \/ a.id \notin DOMAIN users
                    \/ users[a.id].location = NilPtr]

\* the users that strayed, after updateLocation(a.id, a.lat, a.lon)
Strayed(a) ==
    IF ContainsPoint(newWorld, NewPoint(a.lat, a.lon, GoNil)) THEN strayed
    ELSE strayed \cup {a.id}

Init ==
    /\ users = newManager.users
    /\ points = newManager.points
    /\ world = newManager.world
    /\ lock = Free
    /\ pc = [p \in Procs |-> "idle"]
    /\ call = [p \in Procs |-> <<>>]
    /\ last = NoResponse
    /\ added = [id \in Ids |-> {}]
    /\ streak = NoStreak
    /\ strayed = {}

\* the manager's data after an operation
Store(m2) ==
    /\ users' = m2.users
    /\ points' = m2.points
    /\ world' = m2.world

Quiet == \A p \in Procs : pc[p] = "idle"

contactHandler(req) ==
    LET r == contactArgs(req)
    IN  /\ Quiet /\ lock = Free
        /\ IF r.ok
           THEN /\ Store(addContacts(defaultManager, r.args.id, r.args.contacts))
                /\ added' = [added EXCEPT ![r.args.id] = @ \cup Range(r.args.contacts)]
           ELSE UNCHANGED <<users, points, world, added>>
        /\ last' = Response("/contacts", r, <<>>)
        /\ streak' = NoStreak
        /\ UNCHANGED <<lock, pc, call, strayed>>

pingHandler(req) ==
    LET r == pingArgs(req)
    IN  /\ Quiet /\ lock = Free
        /\ IF r.ok
           THEN /\ Store(updateLocation(defaultManager, r.args.id, r.args.lat, r.args.lon))
                /\ streak' = Streak(r.args)
                /\ strayed' = Strayed(r.args)
           ELSE /\ UNCHANGED <<users, points, world, strayed>>
                /\ streak' = NoStreak
        /\ last' = Response("/ping", r, <<>>)
        /\ UNCHANGED <<lock, pc, call, added>>

nearHandler(req) ==
    LET r == nearArgs(req)
    IN  /\ Quiet /\ lock = Free
        /\ IF r.ok
           THEN LET n == nearContacts(defaultManager, r.args.id, r.args.lat, r.args.lon)
                IN  /\ Store(n.m)
                    /\ last' = Response("/near", r, n.ret)
           ELSE /\ UNCHANGED <<users, points, world>>
                /\ last' = Response("/near", r, <<>>)
        /\ streak' = NoStreak
        /\ UNCHANGED <<lock, pc, call, added, strayed>>

allHandler(req) ==
    LET r == allArgs(req)
    IN  /\ Quiet
        /\ last' = Response("/_all", r,
                            IF r.ok THEN allUsers(points, allQuery(defaultManager, r.args))
                            ELSE <<>>)
        /\ streak' = NoStreak
        /\ UNCHANGED <<users, points, world, lock, pc, call, added, strayed>>

(***************************************************************************)
(* Requests                                                                *)
(***************************************************************************)
Post(doc) == [method |-> "POST", readable |-> TRUE, json |-> doc]

Strings(s) == [i \in 1..Len(s) |-> JString(s[i])]

ContactsDoc(id, contacts) ==
    JObject([id |-> JString(id), contacts |-> JArray(Strings(contacts))])

LocationDoc(id, lat, lon) ==
    JObject([id |-> JString(id),
             location |-> JObject([lat |-> JNumber(lat), lon |-> JNumber(lon)])])

AllDoc(id, distance, k, lat, lon) ==
    JObject([id |-> JString(id), distance |-> JNumber(distance),
             num_points |-> JNumber(k),
             location |-> JObject([lat |-> JNumber(lat), lon |-> JNumber(lon)])])

\* places: the origin, a corner of the origin's window, a point just outside
\* it, and a point outside the world region
Origin == <<0, 0>>
Corner == <<10, 10>>
Outside == <<11, 0>>
OffWorld == <<90, 0>>

CoreContacts ==
    {Post(ContactsDoc(1, <<2, 3>>)), Post(ContactsDoc(1, <<3, 1, 3>>)),
     Post(ContactsDoc(2, <<1>>))}

CorePings ==
    {Post(LocationDoc(1, c[1], c[2])) : c \in {Origin, Outside}}
    \cup {Post(LocationDoc(2, c[1], c[2])) : c \in {Origin, Corner, Outside, OffWorld}}
    \cup {Post(LocationDoc(3, Origin[1], Origin[2]))}

CoreNears ==
    {Post(LocationDoc(1, c[1], c[2])) : c \in {Origin, Outside}}
    \cup {Post(LocationDoc(id, 0, 0)) : id \in {2, 3}}

CoreAlls ==
    {Post(AllDoc(1, 10, 2, 0, 0))}

Next ==
    \/ \E req \in CoreContacts : contactHandler(req)
    \/ \E req \in CorePings : pingHandler(req)
    \/ \E req \in CoreNears : nearHandler(req)
    \/ \E req \in CoreAlls : allHandler(req)

Spec == Init /\ [][Next]_vars

(***************************************************************************)
(* The limit case of nearContacts: more contacts in the window than the    *)
(* result may hold.  User id sits at <<id - 1, 0>>.                        *)
(***************************************************************************)
Everyone == [i \in 1..NumUsers |-> i]
Seat(id) == <<id - 1, 0>>

CapContacts ==
    {Post(ContactsDoc(1, Everyone)), Post(ContactsDoc(1, Tail(Everyone)))}

CapPings ==
    {Post(LocationDoc(id, Seat(id)[1], Seat(id)[2])) : id \in Ids}

CapNears ==
    {Post(LocationDoc(1, c[1], c[2])) : c \in {Origin, Seat(NumUsers)}}
    \cup {Post(LocationDoc(2, 0, 0))}

CapAlls ==
    {Post(AllDoc(1, 10, k, 0, 0)) : k \in {0, MaxK}}

NextCap ==
    \/ \E req \in CapContacts : contactHandler(req)
    \/ \E req \in CapPings : pingHandler(req)
    \/ \E req \in CapNears : nearHandler(req)
    \/ \E req \in CapAlls : allHandler(req)

SpecCap == Init /\ [][NextCap]_vars

(***************************************************************************)
(* Request validation: well-formed and malformed requests on every         *)
(* endpoint                                                                *)
(***************************************************************************)
Unreadable == [method |-> "POST", readable |-> FALSE, json |-> JNull]
Get1 == [method |-> "GET", readable |-> TRUE, json |-> ContactsDoc(1, <<2>>)]
GoodLocation == JObject([lat |-> JNumber(0), lon |-> JNumber(0)])

BadAnywhere ==
    {Get1, Unreadable, Post(JMalformed), Post(JArray(<<>>)), Post(JNull),
     Post(JObject([id |-> JNumber(1), contacts |-> JArray(<<>>),
                   location |-> GoodLocation]))}

GateContacts ==
    BadAnywhere \cup
    {Post(ContactsDoc(1, <<2>>)), Post(ContactsDoc(2, <<>>)),
     Post(JObject([contacts |-> JArray(Strings(<<2>>))])),
     Post(JObject([id |-> JString(1)])),
     Post(JObject([id |-> JString(1), contacts |-> JString(2)])),
     Post(JObject([id |-> JString(1),
                   contacts |-> JArray(<<JString(3), JNumber(2)>>)]))}

BadLocations ==
    {Post(JObject([id |-> JString(1)])),
     Post(JObject([id |-> JString(1), location |-> JString(0)])),
     Post(JObject([id |-> JString(1),
                   location |-> JObject([lon |-> JNumber(0)])])),
     Post(JObject([id |-> JString(1),
                   location |-> JObject([lat |-> JString(0), lon |-> JNumber(0)])])),
     Post(JObject([id |-> JString(1),
                   location |-> JObject([lat |-> JNumber(0)])])),
     Post(JObject([id |-> JString(1),
                   location |-> JObject([lat |-> JNumber(0), lon |-> JNull])]))}

GatePings ==
    BadAnywhere \cup BadLocations \cup
    {Post(LocationDoc(2, 0, 0)), Post(LocationDoc(2, 90, 0))}

GateNears ==
    BadAnywhere \cup BadLocations \cup {Post(LocationDoc(1, 0, 0))}

GateAlls ==
    BadAnywhere \cup
    {Post(AllDoc(1, 10, 2, 0, 0)),
     Post(LocationDoc(1, 0, 0)),
     Post(JObject([id |-> JString(1), distance |-> JNumber(10),
                   location |-> GoodLocation])),
     Post(JObject([id |-> JString(1), distance |-> JNumber(10),
                   num_points |-> JString(2), location |-> GoodLocation])),
     Post(JObject([id |-> JString(1), distance |-> JNumber(10),
                   num_points |-> JNumber(2)])),
     Post(JObject([id |-> JString(1), distance |-> JNumber(10),
                   num_points |-> JNumber(2),
                   location |-> JObject([lat |-> JNumber(0)])]))}

NextGate ==
    \/ \E req \in GateContacts : contactHandler(req)
    \/ \E req \in GatePings : pingHandler(req)
    \/ \E req \in GateNears : nearHandler(req)
    \/ \E req \in GateAlls : allHandler(req)

SpecGate == Init /\ [][NextGate]_vars

(***************************************************************************)
(* Concurrent requests: each manager call is Lock, body, deferred Unlock   *)
(***************************************************************************)
Decode(endpoint, req) ==
    CASE endpoint = "/contacts" -> contactArgs(req)
      [] endpoint = "/ping" -> pingArgs(req)
      [] endpoint = "/near" -> nearArgs(req)
      [] endpoint = "/_all" -> allArgs(req)

\* a handler up to its call of the manager (or, for /_all, of the index)
Receive(p, endpoint, req) ==
    LET r == Decode(endpoint, req)
    IN  /\ pc[p] = "idle"
        /\ IF ~r.ok
           THEN /\ last' = Response(endpoint, r, <<>>)
                /\ UNCHANGED <<pc, call>>
           ELSE /\ pc' = [pc EXCEPT ![p] = IF endpoint = "/_all" THEN "query" ELSE "lock"]
                /\ call' = [call EXCEPT ![p] = Response(endpoint, r, <<>>)]
                /\ UNCHANGED last
        /\ UNCHANGED <<users, points, world, lock, added, streak, strayed>>

\* Lock that does not wait for the holder
LockAtOnce(p) ==
    /\ pc[p] = "lock"
    /\ lock' = p
    /\ pc' = [pc EXCEPT ![p] = "cs"]
    /\ UNCHANGED <<users, points, world, call, last, added, streak, strayed>>

\* m.Lock()
Lock(p) ==
    /\ pc[p] = "lock"
    /\ lock = Free
    /\ lock' = p
    /\ pc' = [pc EXCEPT ![p] = "cs"]
    /\ UNCHANGED <<users, points, world, call, last, added, streak, strayed>>

\* the body of the manager operation, up to its return statement
Body(p) ==
    LET a == call[p].args
    IN  /\ pc[p] = "cs"
        /\ pc' = [pc EXCEPT ![p] = "unlock"]
        /\ CASE call[p].endpoint = "/contacts" ->
                  /\ Store(addContacts(defaultManager, a.id, a.contacts))
                  /\ added' = [added EXCEPT ![a.id] = @ \cup Range(a.contacts)]
                  /\ streak' = NoStreak
                  /\ UNCHANGED <<call, strayed>>
             [] call[p].endpoint = "/ping" ->
                  /\ Store(updateLocation(defaultManager, a.id, a.lat, a.lon))
                  /\ streak' = Streak(a)
                  /\ strayed' = Strayed(a)
                  /\ UNCHANGED <<call, added>>
             [] call[p].endpoint = "/near" ->
                  LET n == nearContacts(defaultManager, a.id, a.lat, a.lon)
                  IN  /\ Store(n.m)
                      /\ call' = [call EXCEPT ![p].body = n.ret]
                      /\ streak' = NoStreak
                      /\ UNCHANGED <<added, strayed>>
        /\ UNCHANGED <<lock, last>>

\* a return that leaves the lock held
ReturnLocked(p) ==
    /\ pc[p] = "unlock"
    /\ pc' = [pc EXCEPT ![p] = "idle"]
    /\ last' = call[p]
    /\ call' = [call EXCEPT ![p] = <<>>]
    /\ UNCHANGED <<users, points, world, lock, added, streak, strayed>>

\* defer m.Unlock(), then the handler writes its response
Unlock(p) ==
    /\ pc[p] = "unlock"
    /\ lock' = Free
    /\ pc' = [pc EXCEPT ![p] = "idle"]
    /\ last' = call[p]
    /\ call' = [call EXCEPT ![p] = <<>>]
    /\ UNCHANGED <<users, points, world, added, streak, strayed>>

\* what a read of defaultManager.world that takes no lock may see: the index
\* as it is or, while a process is inside updateLocation, any index between
\* the one before and the one after that call (the read races with the write)
Views ==
    {defaultManager} \cup
    UNION {LET a == call[q].args
               m2 == updateLocation(defaultManager, a.id, a.lat, a.lon)
           IN  {Manager(m2.users, m2.points @@ points, w) :
                  w \in {v \in SUBSET (world \cup m2.world) :
                            world \cap m2.world \subseteq v}} :
           q \in {q \in Procs : pc[q] = "cs" /\ call[q].endpoint = "/ping"}}

\* allHandler's KNearest on defaultManager.world, and its response
Query(p) ==
    /\ pc[p] = "query"
    /\ pc' = [pc EXCEPT ![p] = "idle"]
    /\ \E view \in Views :
          last' = [call[p] EXCEPT
                     !.body = allUsers(view.points, allQuery(view, call[p].args))]
    /\ call' = [call EXCEPT ![p] = <<>>]
    /\ UNCHANGED <<users, points, world, lock, added, streak, strayed>>

ConcRequests ==
    {<<"/contacts", Post(ContactsDoc(1, <<2>>))>>,
     <<"/ping", Post(LocationDoc(2, 0, 0))>>,
     <<"/ping", Post(LocationDoc(2, 11, 0))>>,
     <<"/near", Post(LocationDoc(1, 0, 0))>>,
     <<"/near", Post(LocationDoc(3, 0, 0))>>,
     <<"/_all", Post(AllDoc(1, 10, 2, 0, 0))>>,
     <<"/near", Get1>>}

NextConc ==
    \/ \E p \in Procs : \E e \in ConcRequests : Receive(p, e[1], e[2])
    \/ \E p \in Procs : Lock(p)
    \/ \E p \in Procs : Body(p)
    \/ \E p \in Procs : Unlock(p)
    \/ \E p \in Procs : Query(p)

SpecConc == Init /\ [][NextConc]_vars

(***************************************************************************)
(* Concurrent manager calls under the scheduling of Go's runtime and mutex *)
(***************************************************************************)
FairRequests ==
    {<<"/contacts", Post(ContactsDoc(1, <<2>>))>>,
     <<"/ping", Post(LocationDoc(2, 0, 0))>>,
     <<"/near", Post(LocationDoc(1, 0, 0))>>}

NextFair ==
    \/ \E p \in Procs : \E e \in FairRequests : Receive(p, e[1], e[2])
    \/ \E p \in Procs : Lock(p)
    \/ \E p \in Procs : Body(p)
    \/ \E p \in Procs : Unlock(p)

\* a goroutine that can run does run (Body, Unlock); a goroutine blocked in
\* Lock gets the mutex if it is released again and again: sync.Mutex hands
\* the lock to the longest waiter once it has waited 1ms (starvation mode).
\* Requests need not arrive: Receive has no fairness
Fairness ==
    \A p \in Procs :
       /\ WF_vars(Body(p))
       /\ WF_vars(Unlock(p))
       /\ SF_vars(Lock(p))

SpecFair == Init /\ [][NextFair]_vars /\ Fairness

(***************************************************************************)
(* Properties                                                              *)
(***************************************************************************)
InWindow(lat, lon, p) ==
    /\ Abs(p.x - lat) <= nearestDistance
    /\ Abs(p.y - lon) <= nearestDistance

InWorld(lat, lon) == ContainsPoint(newWorld, NewPoint(lat, lon, GoNil))

\* the points of the index that carry user u's id
PointsOf(u) == {r \in world : points[r].data = GoString(u)}

\* the users that hold a location
Located == {u \in DOMAIN users : users[u].location # NilPtr}

QueryPlaces == {Origin, Corner, Outside, OffWorld, Seat(NumUsers)}

Near(u, c) == nearContacts(defaultManager, u, c[1], c[2])

Answered(endpoint) == last.endpoint = endpoint /\ last.ok

ResultOk(u, ret) ==
    /\ Len(ret) <= nearestContacts
    /\ \A i \in 1..Len(ret) : ret[i] \in users[u].contacts /\ ret[i] # u

\* C1: for every user and every query position, in every reachable state,
\* nearContacts returns at most nearestContacts ids, each a contact of the
\* user, and never the user's own id
BoundedFilteredSelfExcluding ==
    /\ \A u \in Ids : \A c \in QueryPlaces : ResultOk(u, Near(u, c).ret)
    /\ Answered("/near") => ResultOk(last.args.id, last.body)

\* user 1, in its own contact set and located at the query position, with
\* more than nearestContacts contacts in the window, got an answer without itself
SelfExcludedAtCap ==
    /\ Answered("/near")
    /\ last.args = [id |-> 1, lat |-> 0, lon |-> 0]
    /\ 1 \in DOMAIN users
    /\ 1 \in users[1].contacts
    /\ \E r \in PointsOf(1) : points[r].x = 0 /\ points[r].y = 0
    /\ Cardinality({b \in users[1].contacts :
                      \E r \in PointsOf(b) : InWindow(0, 0, points[r])})
         > nearestContacts
    /\ Len(last.body) = nearestContacts - 1

InCS(p) == pc[p] \in {"cs", "unlock"}

\* C2: the manager operations exclude each other: at most one process is
\* between Lock and Unlock, it is the holder of the lock, the lock is free
\* when nobody is, and the registry and the index change only in a step of
\* the holder
ExclusiveLock ==
    /\ [](/\ \A p, q \in Procs : InCS(p) /\ InCS(q) => p = q
          /\ \A p \in Procs : InCS(p) => lock = p
          /\ (\A p \in Procs : ~InCS(p)) => lock = Free)
    /\ [][<<users, points, world>>' # <<users, points, world>>
            => lock # Free /\ pc[lock] = "cs" /\ lock' = lock]_vars

\* one operation is inside its critical section while another waits for the lock
WaitingForHolder ==
    \E p, q \in Procs : pc[p] = "cs" /\ pc[q] = "lock" /\ lock = p

\* C3: the index holds exactly one point per user that has a location, and
\* never two points of one user
OnePointPerLocatedUser ==
    /\ Cardinality(world) = Cardinality(Located)
    /\ \A u \in Ids : Cardinality({r \in world : r[1] = u}) <= 1

\* C4: nearContacts never returns a contact whose point lies strictly outside
\* the window of half-extent nearestDistance around the queried position,
\* whatever the result cap k
OutsideNeverReturned ==
    /\ \A u \in DOMAIN users : \A c \in QueryPlaces :
         LET bb == nearWindow(c[1], c[2])
             fn == [p \in Stored(world, points) |-> filter(users[u].contacts, p)]
         IN  /\ \A b \in Range(Near(u, c).ret) :
                  \E r \in PointsOf(b) : InWindow(c[1], c[2], points[r])
             /\ \A k \in 0..MaxK :
                  \A r \in Range(KNearest(world, points, bb, k, fn)) :
                     InWindow(c[1], c[2], points[r])
    /\ Answered("/near") =>
         \A b \in Range(last.body) :
            \E r \in PointsOf(b) : InWindow(last.args.lat, last.args.lon, points[r])

\* user 1 asked at the origin: contact 3 at the origin was returned, contact 2
\* just outside the window was not
OutsideContactOmitted ==
    /\ Answered("/near")
    /\ last.args = [id |-> 1, lat |-> 0, lon |-> 0]
    /\ 1 \in DOMAIN users
    /\ 2 \in users[1].contacts
    /\ \E r \in PointsOf(2) : points[r].x = Outside[1] /\ points[r].y = Outside[2]
    /\ last.body = <<3>>

\* C5: the contact set of every user is the union of all ids passed to
\* addContacts for it so far, whatever the order and the repetitions
ContactsAreUnion ==
    \A u \in Ids :
       IF u \in DOMAIN users THEN users[u].contacts = added[u]
       ELSE added[u] = {}

\* user 1 was given <<2, 3>> and <<3, 1, 3>> and holds {1, 2, 3}
OverlappingListsMerged ==
    /\ Answered("/contacts")
    /\ 1 \in DOMAIN users
    /\ users[1].contacts = {1, 2, 3}

\* updateLocation with the coordinates the user's location already has
\* changes nothing
SameCoordinatesNoOp ==
    \A u \in Located :
       updateLocation(defaultManager, u, points[users[u].location].x,
                      points[users[u].location].y) = defaultManager

OutOfWorldRejected ==
    (Answered("/ping") /\ ~InWorld(last.args.lat, last.args.lon)) =>
       /\ last.status = 400
       /\ users[last.args.id].location \in world \cup {NilPtr}

\* what the interface table asks of a request body
HasField(o, k, t) == k \in DOMAIN o /\ o[k].t = t

HasLocation(o) ==
    /\ HasField(o, "location", "object")
    /\ HasField(o.location.v, "lat", "number")
    /\ HasField(o.location.v, "lon", "number")

WellFormed(endpoint, req) ==
    /\ req.method = "POST"
    /\ req.readable
    /\ req.json.t = "object"
    /\ HasField(req.json.v, "id", "string")
    /\ CASE endpoint = "/contacts" ->
              /\ HasField(req.json.v, "contacts", "array")
              /\ \A i \in 1..Len(req.json.v.contacts.v) :
                    req.json.v.contacts.v[i].t = "string"
         [] endpoint \in {"/ping", "/near"} -> HasLocation(req.json.v)
         [] endpoint = "/_all" ->
              /\ HasField(req.json.v, "distance", "number")
              /\ HasField(req.json.v, "num_points", "number")
              /\ HasLocation(req.json.v)

Rejects(req) ==
    /\ last'.status = 400
    /\ last'.msg # ""
    /\ ~last'.ok
    /\ UNCHANGED <<users, points, world>>

\* C8: a request that fails validation is answered with 400 and a reason, and
\* changes nothing in the registry, the heap or the index; only a request
\* that passed every check reaches the manager
InvalidRequestsRejected ==
    [][/\ \A req \in GateContacts :
            contactHandler(req) /\ ~WellFormed("/contacts", req) => Rejects(req)
       /\ \A req \in GatePings :
            pingHandler(req) /\ ~WellFormed("/ping", req) => Rejects(req)
       /\ \A req \in GateNears :
            nearHandler(req) /\ ~WellFormed("/near", req) => Rejects(req)
       /\ \A req \in GateAlls :
            allHandler(req) /\ ~WellFormed("/_all", req) => Rejects(req)]_vars

\* a contacts array with one element that is not a string was rejected while
\* the registry held users
BadContactElementRejected ==
    /\ last.endpoint = "/contacts"
    /\ last.status = 400
    /\ last.msg = "Bad Request. Failed to parse contacts."
    /\ DOMAIN users # {}
    /\ world # {}

\* C9: nearContacts answers the empty sequence for an unknown user and for a
\* user without contacts, and no nearContacts call changes the registry, a
\* contact set, a location or the index
NearIsReadOnly ==
    /\ [](\A u \in Ids : \A c \in QueryPlaces :
            LET n == Near(u, c)
            IN  /\ n.m = defaultManager
                /\ (u \notin DOMAIN users \/ users[u].contacts = {})
                      => n.ret = <<>>)
    /\ [][\A req \in CoreNears :
            nearHandler(req) => UNCHANGED <<users, points, world>>]_vars

\* a user that was never registered asked while the index held points, got
\* the empty answer and is still not registered
UnknownUserAnswered ==
    /\ Answered("/near")
    /\ last.args.id \notin DOMAIN users
    /\ last.body = <<>>
    /\ world # {}

\* C10: a contact that has reported a location inside the query window is
\* returned when fewer than nearestContacts contacts qualify, and a contact
\* without a location is never returned
LocatedContactsReturned ==
    \A u \in DOMAIN users : \A c \in QueryPlaces :
       LET ret == Near(u, c).ret
           reported == {b \in users[u].contacts \cap Located :
                          InWindow(c[1], c[2], points[users[b].location])}
       IN  /\ Cardinality(reported) < nearestContacts =>
                \A b \in reported \ {u} : b \in Range(ret)
           /\ \A b \in Range(ret) : b \in Located

\* the sequence seq without the entries at the positions outside keep
RECURSIVE Keeping(_, _)
Keeping(seq, keep) ==
    IF seq = <<>> THEN <<>>
    ELSE LET rest == Keeping(Tail(seq), {i - 1 : i \in keep \ {1}})
         IN  IF 1 \in keep THEN <<Head(seq)>> \o rest ELSE rest

\* ret lists, in their order, the ids carried by the points of found that
\* carry an id other than u
DropsOnly(u, ret, found) ==
    LET keep == {i \in 1..Len(found) :
                   /\ points[found[i]].data.t = "string"
                   /\ points[found[i]].data.v # u}
        kept == Keeping(found, keep)
    IN  ret = [i \in 1..Len(kept) |-> points[kept[i]].data.v]

\* the squared distance from position c of the point that carries user b's id
DistanceOf(b, c) ==
    LET r == CHOOSE r \in PointsOf(b) : TRUE
    IN  (points[r].x - c[1]) * (points[r].x - c[1])
          + (points[r].y - c[2]) * (points[r].y - c[2])

\* every id of ret has a point, and none is nearer to c than the id before it
Ascending(ret, c) ==
    /\ \A i \in 1..Len(ret) : PointsOf(ret[i]) # {}
    /\ \A i \in 1..(Len(ret) - 1) :
          DistanceOf(ret[i], c) <= DistanceOf(ret[i + 1], c)

\* C11: for every user and every query position, the ids nearContacts returns
\* are in ascending order of the squared distance of their points from the
\* query position, and they are the payloads of the sequence KNearest
\* returned, in its order, with only entries dropped
ResultInDistanceOrder ==
    \A u \in DOMAIN users : \A c \in QueryPlaces :
       LET found == KNearest(world, points, nearWindow(c[1], c[2]),
                             nearestContacts,
                             [p \in Stored(world, points) |->
                                 filter(users[u].contacts, p)])
           ret == Near(u, c).ret
       IN  users[u].contacts # {} =>
              /\ Ascending(ret, c)
              /\ DropsOnly(u, ret, found)

\* user 1 asked from the farthest seat and got at least three ids, the
\* first of them seated farther from the origin than the second
FarthestSeatFirst ==
    /\ Answered("/near")
    /\ last.args.id = 1
    /\ <<last.args.lat, last.args.lon>> = Seat(NumUsers)
    /\ Len(last.body) >= 3
    /\ last.body[1] > last.body[2]
    /\ last.body = Near(1, Seat(NumUsers)).ret

\* process p is at a read of the index, process q inside a call that writes it
Reading(p) ==
    \/ pc[p] = "query"
    \/ pc[p] = "cs" /\ call[p].endpoint = "/near"

Mutating(q) == pc[q] = "cs" /\ call[q].endpoint = "/ping"

\* C12: in every reachable state no process is at a read of the index while
\* another process is inside updateLocation, for the reads of all four
\* endpoints: each of them happens with the manager's lock held
NoReadDuringUpdate ==
    \A p \in Procs : \A q \in Procs \ {p} : ~(Reading(p) /\ Mutating(q))

Places == {Origin, Corner, Outside, OffWorld}

\* what Update reports when updateLocation relocates user u to position c
RelocationError(u, c) ==
    LET r == NewRef(defaultManager, u)
        pts == (r :> NewPoint(c[1], c[2], GoNil)) @@ points
    IN  Update(world, pts, newWorld, users[u].location, r).err

\* C13: in every reachable state every user that holds a location references
\* a point stored in the index, so that Update, called to relocate the user to
\* any other position, does not report NotFoundError
LocationsStoredInIndex ==
    \A u \in Located :
       /\ users[u].location \in world
       /\ \A c \in Places :
             <<points[users[u].location].x, points[users[u].location].y>> # c
                => RelocationError(u, c) # "NotFoundError"

\* C14: when user b, whose reports were all inside the world region, has
\* just reported a position, then for every user a that has b among fewer
\* than nearestContacts contacts and for every query position, nearContacts
\* returns b to a exactly if the position b reported last lies inside the
\* query window
RelocatedContactFound ==
    (Answered("/ping") /\ last.args.id \notin strayed) =>
       LET b == last.args.id
           at == NewPoint(last.args.lat, last.args.lon, GoNil)
       IN  \A a \in DOMAIN users \ {b} : \A c \in QueryPlaces :
              (b \in users[a].contacts
                 /\ Cardinality(users[a].contacts) < nearestContacts)
                 => (b \in Range(Near(a, c).ret) <=> InWindow(c[1], c[2], at))

\* the contacts of u, other than u, that have a point inside the window at c
Qualifying(u, c) ==
    {b \in users[u].contacts \ {u} :
       \E r \in PointsOf(b) : InWindow(c[1], c[2], points[r])}

\* C15: for every user u and every query position, nearContacts returns
\* exactly min(nearestContacts, |Q|) ids, all of them in Q, the contacts of u
\* other than u whose points lie inside the query window; the point of u
\* itself takes no place in the result
ResultFilledFromContacts ==
    \A u \in DOMAIN users : \A c \in QueryPlaces :
       LET ret == Near(u, c).ret
       IN  /\ Range(ret) \subseteq Qualifying(u, c)
           /\ Len(ret) = Min(nearestContacts, Cardinality(Qualifying(u, c)))

\* the users and the contact lists addContacts is applied to in every state
CoreIds == 1..3

ContactLists == {<<>>, <<1>>, <<2, 3>>, <<3, 1, 3>>}

\* m2 differs from the manager's current data at most in the contact set of
\* user id, whose record may be new, then without a location
OnlyContactsOf(id, m2) ==
    /\ DOMAIN m2.users = DOMAIN users \cup {id}
    /\ \A v \in DOMAIN users \ {id} : m2.users[v] = users[v]
    /\ m2.users[id].id = id
    /\ m2.users[id].location =
          IF id \in DOMAIN users THEN users[id].location ELSE NilPtr
    /\ m2.points = points
    /\ m2.world = world
    /\ \A v \in DOMAIN m2.users \ {id} : \A c \in QueryPlaces :
          nearContacts(m2, v, c[1], c[2]).ret = Near(v, c).ret

\* C16: in every reachable state, addContacts(id, cs) changes nothing but the
\* contact set of user id, whose record it creates when absent: it creates
\* no record for an id of cs, changes no other user's contacts or query
\* results, and leaves every location and the index as they are; so does
\* every /contacts request
AddContactsFrame ==
    /\ \A id \in CoreIds : \A cs \in ContactLists :
          OnlyContactsOf(id, addContacts(defaultManager, id, cs))
    /\ [][\A req \in CoreContacts :
            contactHandler(req) =>
               /\ OnlyContactsOf(contactArgs(req).args.id,
                                 Manager(users', points', world'))
               /\ UNCHANGED <<points, world>>]_vars

\* user 1 added contacts 2 and 3 while it and user 2 held locations at the
\* origin: user 3 has no record, user 2 has no contacts and is told of nobody
OneWayContact ==
    /\ Answered("/contacts")
    /\ last.args.id = 1
    /\ 1 \in DOMAIN users /\ 2 \in DOMAIN users /\ 3 \notin DOMAIN users
    /\ {2, 3} \subseteq users[1].contacts
    /\ users[2].contacts = {}
    /\ {1, 2} \subseteq Located
    /\ Near(1, Origin).ret = <<2>>
    /\ Near(2, Origin).ret = <<>>

\* the users for which updateLocation put a point into the index that is
\* still there
Owners == {r[1] : r \in world}

\* C17: on every step the set of registered ids, the contact set of every
\* registered user and the set of users that have a point in the index stay
\* the same or grow
StateOnlyGrows ==
    [][/\ DOMAIN users \subseteq DOMAIN users'
       /\ \A u \in DOMAIN users : users[u].contacts \subseteq users'[u].contacts
       /\ Owners \subseteq Owners']_vars

\* C18: under the fair scheduling of the lock, every process that has invoked
\* a manager operation eventually acquires the lock, and every process
\* inside a call eventually returns from it with the lock released, however
\* many of the processes call at once
EveryCallReturns ==
    \A p \in Procs :
       /\ (pc[p] = "lock") ~> (pc[p] = "cs" /\ lock = p)
       /\ (pc[p] # "idle") ~> (pc[p] = "idle")

\* one process is about to return from updateLocation while every other
\* process waits for the lock
AllOthersWaiting ==
    \E p \in Procs :
       /\ pc[p] = "unlock" /\ lock = p
       /\ call[p].endpoint = "/ping"
       /\ \A q \in Procs \ {p} : pc[q] = "lock"

====
